---- MODULE Spec2Model ----
(***************************************************************************)
(* Well-Known DID Configuration: issuing (createCredential), assembling    *)
(* (getDomainLinkagePresentation) and verifying                            *)
(* (verifyDidConfigPresentation) a domain linkage credential, as written   *)
(* in src/src/wellKnownDidConfiguration/wellKnownDidConfiguration.ts.      *)
(*                                                                         *)
(* Strings the code inspects character by character (origins) are          *)
(* sequences of one-character strings.  Identifiers the code only compares *)
(* or hands to the SDK (DIDs, key ids, public keys) are atoms.             *)
(***************************************************************************)
EXTENDS Naturals, Sequences, FiniteSets, TLC

(***************************************************************************)
(* Bounds of the model.                                                    *)
(***************************************************************************)
\* Largest number of linked_dids entries of a presentation handed to the verifier.
MaxEntries == 2

(***************************************************************************)
(* JavaScript values of claim.contents.origin : a string, undefined, or a  *)
(* value of another type.                                                  *)
(***************************************************************************)
JsStr(s) == [type |-> "string", val |-> s]
JsUndefined == [type |-> "undefined", val |-> <<>>]
JsNumber == [type |-> "number", val |-> <<"7">>]

\* JavaScript truthiness of such a value: '' and undefined are falsy.
Truthy(v) ==
    CASE v.type = "string" -> v.val # <<>>
      [] v.type = "number" -> TRUE
      [] OTHER -> FALSE

(***************************************************************************)
(* validUrl.isUri (package valid-url), as called at lines 55, 103, 189.    *)
(***************************************************************************)
Alpha == {"a","b","c","d","e","f","g","h","i","j","k","l","m","n","o","p","q",
          "r","s","t","u","v","w","x","y","z",
          "A","B","C","D","E","F","G","H","I","J","K","L","M","N","O","P","Q",
          "R","S","T","U","V","W","X","Y","Z"}
Digit == {"0","1","2","3","4","5","6","7","8","9"}
HexDigit == Digit \cup {"a","b","c","d","e","f","A","B","C","D","E","F"}
UriPunct == {":","/","?","#","[","]","@","!","$","&","'","(",")","*","+",",",
             ";","=",".","-","_","~","%"}
UriDelims == {":","/","?","#"}

\* Index of the first character of s, at or after position from, that is in set;
\* Len(s)+1 when there is none.
FirstIn(s, from, set) ==
    LET hits == {i \in from..Len(s) : s[i] \in set}
    IN  IF hits = {} THEN Len(s) + 1
        ELSE CHOOSE i \in hits : \A j \in hits : i <= j

\* The RFC 3986 split of the value: scheme, authority and path (the query and
\* the fragment are not inspected by isUri).
splitUri(s) ==
    LET k == FirstIn(s, 1, UriDelims)
        hasScheme == k > 1 /\ k <= Len(s) /\ s[k] = ":"
        rest == IF hasScheme THEN k + 1 ELSE 1
        hasAuth == rest + 1 <= Len(s) /\ s[rest] = "/" /\ s[rest + 1] = "/"
        authEnd == IF hasAuth THEN FirstIn(s, rest + 2, {"/","?","#"}) ELSE rest
        pathEnd == FirstIn(s, authEnd, {"?","#"})
    IN  [hasScheme |-> hasScheme,
         scheme    |-> IF hasScheme THEN SubSeq(s, 1, k - 1) ELSE <<>>,
         hasAuth   |-> hasAuth,
         authority |-> IF hasAuth THEN SubSeq(s, rest + 2, authEnd - 1) ELSE <<>>,
         path      |-> SubSeq(s, authEnd, pathEnd - 1)]

\* The checks of valid-url's is_iri, which the package exports as isUri: TRUE
\* when it returns the (non-empty) uri, FALSE when it returns undefined.
is_iri(s) ==
    LET u == splitUri(s)
        n == Len(s)
    IN  /\ s # <<>>
        /\ \A i \in 1..n : s[i] \in Alpha \cup Digit \cup UriPunct
        /\ ~ \E i \in 1..n : s[i] = "%" /\ i + 1 <= n /\ s[i + 1] \notin HexDigit
        /\ ~ \E i \in 1..n : /\ s[i] = "%" /\ i + 1 <= n /\ s[i + 1] \in HexDigit
                             /\ (i + 2 > n \/ s[i + 2] \notin HexDigit)
        /\ u.hasScheme /\ u.scheme # <<>>
        /\ IF u.hasAuth /\ u.authority # <<>>
           THEN u.path = <<>> \/ u.path[1] = "/"
           ELSE ~ (Len(u.path) >= 2 /\ u.path[1] = "/" /\ u.path[2] = "/")
        /\ u.scheme[1] \in Alpha
        /\ \A i \in 1..Len(u.scheme) : u.scheme[i] \in Alpha \cup Digit \cup {"+","-","."}

(***************************************************************************)
(* Origins used as inputs.                                                 *)
(***************************************************************************)
OriginA == <<"h","t","t","p",":","/","/","a">>
OriginB == <<"h","t","t","p",":","/","/","b">>
\* 'bad origin', the origin of the failing test at line 311.
BadOrigin == <<"b","a","d"," ","o","r","i","g","i","n">>
NoSchemeOrigin == <<"/","/","a">>
DigitSchemeOrigin == <<"1","t","p",":","/","/","a">>
BadEscapeOrigin == <<"h",":","/","/","a","%","z">>
DoubleSlashPathOrigin == <<"h",":","/","/","/","/","a">>

ValidOrigins == {OriginA, OriginB}
InvalidOrigins == {<<>>, BadOrigin, NoSchemeOrigin, DigitSchemeOrigin,
                   BadEscapeOrigin, DoubleSlashPathOrigin}
Origins == ValidOrigins \cup InvalidOrigins

\* validUrl.isUri.  It is a pure function of the string: its values on the
\* origins above are worked out once, by is_iri, and looked up afterwards.
isUriOfOrigins == [s \in Origins |-> is_iri(s)]
isUri(s) == IF s \in Origins THEN isUriOfOrigins[s] ELSE is_iri(s)

(***************************************************************************)
(* DIDs and the chain's DID registry (Did.resolve), as the fixtures of     *)
(* src/src/tests/utils.ts build it: a full DID with an authentication key  *)
(* and an assertion-method key.                                            *)
(***************************************************************************)
Alice == "did:kilt:4alice"
Bob == "did:kilt:4bob"
\* A full DID whose document has no assertion-method key.
Carol == "did:kilt:4carol"
\* A syntactically valid DID that is not on chain.
Dave == "did:kilt:4dave"
\* Not a KILT DID.
WebDid == "did:web:example"
\* claim.owner left unset (undefined, or the empty string): falsy in JavaScript.
UnsetOwner == ""

KiltDids == {Alice, Bob, Carol, Dave}
Registered == {Alice, Bob, Carol}

AuthKey(did) ==
    CASE did = Alice -> [id |-> "#alice-auth", publicKey |-> "pk-alice-auth"]
      [] did = Bob   -> [id |-> "#bob-auth", publicKey |-> "pk-bob-auth"]
      [] OTHER       -> [id |-> "#carol-auth", publicKey |-> "pk-carol-auth"]
AttKey(did) ==
    CASE did = Alice -> [id |-> "#alice-att", publicKey |-> "pk-alice-att"]
      [] OTHER       -> [id |-> "#bob-att", publicKey |-> "pk-bob-att"]

NoDocument == [uri |-> "", authentication |-> <<>>, assertionMethod |-> <<>>]
\* The DID document stored on chain (generateDid, utils.ts lines 102-107).
Document(did) ==
    [uri |-> did,
     authentication |-> <<AuthKey(did)>>,
     assertionMethod |-> IF did \in {Alice, Bob} THEN <<AttKey(did)>> ELSE <<>>]

\* Did.resolve: the document, or nothing for a DID that is not on chain.
resolve(did) ==
    IF did \in Registered
    THEN [found |-> TRUE, document |-> Document(did)]
    ELSE [found |-> FALSE, document |-> NoDocument]

\* Did.validateUri: throws unless the value is a KILT DID.
validateUri(did) == did \in KiltDids

\* `${didUri}${keyId}`, and its parse into DID and fragment.
KeyUri(did, keyId) == [did |-> did, fragment |-> keyId]
\* A signature without a keyUri member (keyUri is undefined): it names no DID.
NoKeyUri == KeyUri("", "")

(***************************************************************************)
(* Root hashes and the credential id codec (toCredentialIRI and            *)
(* fromCredentialIRI of @kiltprotocol/vc-export).                          *)
(* A text is an optional 'kilt:cred:' prefix, a base marker ('0x' for hex) *)
(* and the digest.  The digest of a claim and its nonces is modelled as    *)
(* collision free: it is the pair hashed.                                  *)
(***************************************************************************)
KILT_CREDENTIAL_IRI_PREFIX == "kilt:cred:"
\* The hash of ctypeDomainLinkage (line 31), as the test at line 277 spells it.
CTypeHash == "0x39dc47bc933944ac66cfcf46bfdb66ca070b04a17cd8818eefb669928caf4d3e"

\* Credential.fromClaim draws fresh random nonces for the claim's fields.  A
\* behaviour holds one issuance, hence one draw, and nothing in the code reads
\* the nonces: the draw is one symbolic value.
Nonces == {"fresh-nonce"}

Digest(claim, nonce) == [claim |-> claim, nonce |-> nonce]
HexText(digest) == [iri |-> "", base |-> "0x", digest |-> digest]
isHex(text) == text.iri = "" /\ text.base = "0x"

toCredentialIRI(rootHash) ==
    IF rootHash.iri = KILT_CREDENTIAL_IRI_PREFIX
    THEN [ok |-> TRUE, value |-> rootHash]
    ELSE IF ~isHex(rootHash)
    THEN [ok |-> FALSE, value |-> rootHash]
    ELSE [ok |-> TRUE, value |-> [rootHash EXCEPT !.iri = KILT_CREDENTIAL_IRI_PREFIX]]

fromCredentialIRI(credentialId) ==
    LET hexString == IF credentialId.iri = KILT_CREDENTIAL_IRI_PREFIX
                     THEN [credentialId EXCEPT !.iri = ""]
                     ELSE credentialId
    IN  [ok |-> isHex(hexString), value |-> hexString]

(***************************************************************************)
(* Signatures.  The fixtures sign with sr25519 (utils.ts line 136), whose  *)
(* signatures are randomised: signing the same bytes twice gives two       *)
(* different signatures, and both verify.                                  *)
(***************************************************************************)
SigRands == {0, 1}
NoClaim == [cTypeHash |-> "", contents |-> [origin |-> JsUndefined], owner |-> ""]
NoText == [iri |-> "", base |-> "", digest |-> Digest(NoClaim, "")]
Sign(secret, data, r) == [key |-> secret, msg |-> data, r |-> r]
\* The signature '0x' of the tamper tests (lines 347 and 358).
EmptySignature == [key |-> "", msg |-> NoText, r |-> 0]
\* Crypto.verify
CryptoVerify(message, signature, publicKey) ==
    signature.key = publicKey /\ signature.msg = message

\* Did.verifyDidSignature with expectedVerificationMethod 'assertionMethod':
\* the DID named by the key URI is resolved, the key must be one of that
\* document's keys and one of its assertion-method keys, and the signature must
\* verify under it.  TRUE when it resolves, FALSE when it throws.
verifyDidSignature(sig, message) ==
    LET res == resolve(sig.keyUri.did)
        doc == res.document
        keys == {doc.authentication[i] : i \in 1..Len(doc.authentication)}
                \cup {doc.assertionMethod[i] : i \in 1..Len(doc.assertionMethod)}
        named == {k \in keys : k.id = sig.keyUri.fragment}
    IN  /\ res.found
        /\ named # {}
        /\ \E i \in 1..Len(doc.assertionMethod) :
               doc.assertionMethod[i].id = sig.keyUri.fragment
        /\ \E k \in named : CryptoVerify(message, sig.signature, k.publicKey)

(***************************************************************************)
(* Signing capabilities (SignCallback).                                    *)
(***************************************************************************)
\* assertionSigner, utils.ts lines 125-139.
assertionSigner(assertion, didDocument) ==
    [secret |-> assertion,
     keyUri |-> KeyUri(didDocument.uri, didDocument.assertionMethod[1].id)]
\* The callback generateDid hands to Did.getStoreTx, utils.ts lines 109-112: it
\* signs with the authentication key and answers {signature, keyType}, without
\* a keyUri.
authenticationSigner(authentication) ==
    [secret |-> authentication, keyUri |-> NoKeyUri]

SignCallbacks ==
    {assertionSigner(AttKey(d).publicKey, Document(d)) : d \in {Alice, Bob}}
    \cup {authenticationSigner(AuthKey(Alice).publicKey)}

\* What the capability answers for the bytes it is given.
InvokeSigner(signCallback, data, r) ==
    [signature |-> Sign(signCallback.secret, data, r), keyUri |-> signCallback.keyUri]
\* The capability has not been invoked.
NoAnswer == [signature |-> EmptySignature, keyUri |-> NoKeyUri]

(***************************************************************************)
(* Error conditions, named as in the specification's taxonomy.             *)
(***************************************************************************)
NoError == "none"
InvalidOriginError == "InvalidOriginError"
InvalidDidError == "InvalidDidError"
DidResolutionError == "DidResolutionError"
MissingAssertionKeyError == "MissingAssertionKeyError"
MalformedClaimError == "MalformedClaimError"
DidMismatchError == "DidMismatchError"
IssuerMismatchError == "IssuerMismatchError"
OriginMismatchError == "OriginMismatchError"
SignatureVerificationError == "SignatureVerificationError"
\* thrown by toCredentialIRI / fromCredentialIRI for a text that is not hex
InvalidIdentifierError == "InvalidIdentifierError"

(***************************************************************************)
(* createCredential, lines 42-83, cut at its two awaits: Did.resolve       *)
(* (line 47) and, inside Credential.createPresentation, the answer of the  *)
(* signCallback (lines 79-82).                                             *)
(***************************************************************************)
NoCredential ==
    [claim |-> NoClaim, nonce |-> "", rootHash |-> NoText,
     claimerSignature |-> [keyUri |-> NoKeyUri, signature |-> EmptySignature],
     delegationId |-> "null", legitimations |-> <<>>]

\* Claim.fromCTypeAndClaimContents (lines 63-67)
fromCTypeAndClaimContents(contents, owner) ==
    [cTypeHash |-> CTypeHash, contents |-> contents, owner |-> owner]

\* Credential.fromClaim (line 69): draws the nonces and hashes.
fromClaim(claim, nonce) ==
    [claim |-> claim, nonce |-> nonce, rootHash |-> HexText(Digest(claim, nonce)),
     claimerSignature |-> [keyUri |-> NoKeyUri, signature |-> EmptySignature],
     delegationId |-> "null", legitimations |-> <<>>]

\* Credential.createPresentation (lines 79-82), resumed with the answer of the
\* signCallback: the answer becomes the claimer signature, its keyUri as it is.
createPresentation(credential, signed) ==
    [credential EXCEPT
        !.claimerSignature = [keyUri |-> signed.keyUri,
                              signature |-> signed.signature]]

Thrown(err) == [error |-> err, value |-> NoCredential]

\* createCredential without the check of the origin (lines 55-57 dropped).
createCredential_OriginUnchecked(origin, didUri, nonce) ==
    LET fullDid == resolve(didUri)
        document == fullDid.document
        claim == fromCTypeAndClaimContents([origin |-> JsStr(origin)], document.uri)
    IN  IF ~fullDid.found THEN Thrown(DidResolutionError)
        ELSE IF document.assertionMethod = <<>> THEN Thrown(MissingAssertionKeyError)
        ELSE [error |-> NoError, value |-> fromClaim(claim, nonce)]

\* Lines 49-77, run when Did.resolve has answered: the checks, the claim and
\* the credential createPresentation is called with.  nonce is the random draw
\* of Credential.fromClaim.
createCredential(origin, didUri, nonce) ==
    LET fullDid == resolve(didUri)
        document == fullDid.document
        claim == fromCTypeAndClaimContents([origin |-> JsStr(origin)], document.uri)
    IN  IF ~fullDid.found THEN Thrown(DidResolutionError)
        ELSE IF ~isUri(origin) THEN Thrown(InvalidOriginError)
        ELSE IF document.assertionMethod = <<>> THEN Thrown(MissingAssertionKeyError)
        ELSE [error |-> NoError, value |-> fromClaim(claim, nonce)]

(***************************************************************************)
(* getDomainLinkagePresentation, lines 85-160, cut at its await of         *)
(* Did.verifyDidSignature (line 120).  The issuance and expiration dates   *)
(* of the envelope are clock readings and are left out.                    *)
(***************************************************************************)
DEFAULT_VERIFIABLECREDENTIAL_TYPE == "VerifiableCredential"
KILT_VERIFIABLECREDENTIAL_TYPE == "KiltCredential2020"
KILT_SELF_SIGNED_PROOF_TYPE == "KILTSelfSigned2020"
DID_CONFIGURATION_CONTEXT == "https://identity.foundation/.well-known/did-configuration/v1"
DID_VC_CONTEXT == "https://www.w3.org/2018/credentials/v1"

NoPresentation == [context |-> "", linked_dids |-> <<>>]

\* attempted: the validations the call reached, in order.
AssemblyThrown(err, attempted) ==
    [error |-> err, value |-> NoPresentation, attempted |-> attempted]

\* Lines 91-127: from the call to the await of Did.verifyDidSignature, which is
\* handed the keyUri and the signature the claimer signature holds at that
\* moment.
AssemblyCheckSync(credential) ==
    LET claimContents == credential.claim.contents
    IN  IF credential.claim.owner = UnsetOwner /\ ~Truthy(claimContents.origin)
        THEN AssemblyThrown(MalformedClaimError, <<>>)
        ELSE IF ~validateUri(credential.claim.owner)
        THEN AssemblyThrown(InvalidDidError, <<"validateUri">>)
        ELSE IF claimContents.origin.type # "string"
        THEN AssemblyThrown(InvalidOriginError, <<"validateUri", "typeof">>)
        ELSE IF ~isUri(claimContents.origin.val)
        THEN AssemblyThrown(InvalidOriginError, <<"validateUri", "typeof", "isUri">>)
        ELSE IF ~toCredentialIRI(credential.rootHash).ok
        THEN AssemblyThrown(InvalidIdentifierError, <<"validateUri", "typeof", "isUri">>)
        ELSE AssemblyThrown(NoError,
                            <<"validateUri", "typeof", "isUri", "verifyDidSignature">>)

\* Lines 109-159, for a call that reached the await: the answer of
\* Did.verifyDidSignature and the envelope.  credential is the argument as it
\* was when the call was made (didUri, origin, rootHash, id and the values
\* handed to Did.verifyDidSignature were read before the await);
\* claimerSignature is what the credential's claimerSignature object holds
\* when the call resumes: lines 133-134 read it again.
getDomainLinkagePresentation(credential, claimerSignature) ==
    LET claimContents == credential.claim.contents
        didUri == credential.claim.owner
        id == toCredentialIRI(credential.rootHash)
        credentialSubject == [id |-> didUri, origin |-> claimContents.origin.val]
        proof == [type |-> KILT_SELF_SIGNED_PROOF_TYPE,
                  proofPurpose |-> "assertionMethod",
                  verificationMethod |-> claimerSignature.keyUri,
                  signature |-> claimerSignature.signature]
        attempted == <<"validateUri", "typeof", "isUri", "verifyDidSignature">>
    IN  IF ~verifyDidSignature(credential.claimerSignature, credential.rootHash)
        THEN AssemblyThrown(SignatureVerificationError, attempted)
        ELSE [error |-> NoError,
              value |-> [context |-> DID_CONFIGURATION_CONTEXT,
                         linked_dids |->
                           << [context |-> <<DID_VC_CONTEXT, DID_CONFIGURATION_CONTEXT>>,
                               id |-> id.value,
                               issuer |-> didUri,
                               type |-> <<DEFAULT_VERIFIABLECREDENTIAL_TYPE,
                                          "DomainLinkageCredential",
                                          KILT_VERIFIABLECREDENTIAL_TYPE>>,
                               credentialSubject |-> credentialSubject,
                               proof |-> proof] >>],
              attempted |-> attempted]

(***************************************************************************)
(* verifyDidConfigPresentation, lines 169-215: the callback run on each    *)
(* linked_dids entry, cut at its two awaits.  The callback reads issuer,   *)
(* credentialSubject and id before its first await and the proof once,     *)
(* after Did.resolve has answered: an entry overwritten while the call is  *)
(* under way is verified as the entry with those values handed over.       *)
(***************************************************************************)
\* The synchronous checks without the comparison of issuer and subject.
EntryCheckSync_NoIssuerCheck(didUri, credential, origin) ==
    IF didUri # credential.credentialSubject.id THEN DidMismatchError
    ELSE IF ~validateUri(credential.credentialSubject.id) THEN InvalidDidError
    ELSE IF origin # credential.credentialSubject.origin THEN OriginMismatchError
    ELSE IF ~isUri(origin) THEN InvalidOriginError
    ELSE NoError

\* Lines 178-189: from the call to the first await (Did.resolve).
EntryCheckSync(didUri, credential, origin) ==
    IF didUri # credential.credentialSubject.id THEN DidMismatchError
    ELSE IF ~validateUri(credential.credentialSubject.id) THEN InvalidDidError
    ELSE IF credential.issuer # credential.credentialSubject.id THEN IssuerMismatchError
    ELSE IF origin # credential.credentialSubject.origin THEN OriginMismatchError
    ELSE IF ~isUri(origin) THEN InvalidOriginError
    ELSE NoError

\* Lines 191-204: from the answer of Did.resolve to the call of
\* Did.verifyDidSignature.
EntryCheckResolved(didUri, credential) ==
    LET fullDid == resolve(didUri)
    IN  IF ~fullDid.found THEN DidResolutionError
        ELSE IF fullDid.document.assertionMethod = <<>> THEN MissingAssertionKeyError
        ELSE IF ~fromCredentialIRI(credential.id).ok THEN InvalidIdentifierError
        ELSE NoError

\* The signature checked against the credential id as it is, the 'kilt:cred:'
\* prefix not stripped.
EntryCheckSignature_PrefixKept(credential) ==
    IF verifyDidSignature([keyUri |-> credential.proof.verificationMethod,
                           signature |-> credential.proof.signature],
                          credential.id)
    THEN NoError
    ELSE SignatureVerificationError

\* Did.verifyDidSignature called without await: its rejection is lost.
EntryCheckSignature_NotAwaited(credential) == NoError

\* Lines 206-213: the answer of Did.verifyDidSignature.
EntryCheckSignature(credential) ==
    IF verifyDidSignature([keyUri |-> credential.proof.verificationMethod,
                           signature |-> credential.proof.signature],
                          fromCredentialIRI(credential.id).value)
    THEN NoError
    ELSE SignatureVerificationError

(***************************************************************************)
(* asyncSome, lines 162-167: Promise.all over the entries' promises.       *)
(* It rejects with the first rejection it is told of and resolves once     *)
(* every promise is fulfilled; the other callbacks run on regardless.      *)
(***************************************************************************)
Idle == [state |-> "idle", error |-> NoError]
Pending == [state |-> "pending", error |-> NoError]
Resolved == [state |-> "resolved", error |-> NoError]
Rejected(err) == [state |-> "rejected", error |-> err]

\* The callbacks are started in index order and each runs to its first await
\* before the next starts: of the entries that throw before their first await,
\* the one with the smallest index is the first rejection Promise.all sees.
asyncSomeStart(errs) ==
    LET failed == {i \in 1..Len(errs) : errs[i] # NoError}
    IN  IF failed # {}
        THEN Rejected(errs[CHOOSE i \in failed : \A j \in failed : i <= j])
        ELSE IF Len(errs) = 0 THEN Resolved
        ELSE Pending

\* Promise.any in place of Promise.all: resolved as soon as one entry is
\* fulfilled.
asyncSomeSettle_Any(outcome, pcs, errs, i) ==
    IF outcome.state # "pending" THEN outcome
    ELSE IF pcs[i] = "fulfilled" THEN Resolved
    ELSE IF \A j \in 1..Len(pcs) : pcs[j] = "rejected" THEN Rejected(errs[i])
    ELSE outcome

\* Entry i has just settled (pcs and errs are the values after it did).
asyncSomeSettle(outcome, pcs, errs, i) ==
    IF outcome.state # "pending" THEN outcome
    ELSE IF pcs[i] = "rejected" THEN Rejected(errs[i])
    ELSE IF \A j \in 1..Len(pcs) : pcs[j] = "fulfilled" THEN Resolved
    ELSE outcome

(***************************************************************************)
(* Inputs of the calls: what a caller can hand over, built from what the   *)
(* earlier calls returned.                                                 *)
(***************************************************************************)
OtherDid(did) == IF did = Alice THEN Bob ELSE Alice

\* The credential createCredential returned, as it is or with its claimer
\* signature, its owner or its origin overwritten (the test at line 347
\* overwrites the signature).
CredentialInputs(c) ==
    {[c EXCEPT !.claim.owner = owner, !.claim.contents.origin = origin,
               !.claimerSignature.signature = sig] :
        owner \in {c.claim.owner, UnsetOwner, WebDid},
        origin \in {c.claim.contents.origin, JsUndefined, JsNumber, JsStr(BadOrigin)},
        sig \in {c.claimerSignature.signature, EmptySignature}}

\* What one assignment of a caller leaves in the credential's claimerSignature
\* object while getDomainLinkagePresentation awaits Did.verifyDidSignature:
\* the signature '0x' (the assignment of the test at line 347) or the key URI
\* otherKey.  These are the two members lines 133-134 read again.
ClaimerSignatureOverwrites(claimerSignature, otherKey) ==
    {[claimerSignature EXCEPT !.signature = EmptySignature],
     [claimerSignature EXCEPT !.keyUri = otherKey]}

\* An entry of an assembled presentation, as it is or with one part overwritten
\* (the test at line 358 overwrites the proof signature).
EntryInputs(e) ==
    {e}
    \cup {[e EXCEPT !.proof.signature = EmptySignature]}
    \cup {[e EXCEPT !.proof.signature = Sign(@.key, @.msg, r)] : r \in SigRands}
    \cup {[e EXCEPT !.proof.signature =
                      Sign(AttKey(OtherDid(e.proof.verificationMethod.did)).publicKey,
                           @.msg, @.r)]}
    \cup {[e EXCEPT !.credentialSubject.id = OtherDid(@)]}
    \cup {[e EXCEPT !.issuer = OtherDid(@)]}
    \cup {[e EXCEPT !.credentialSubject.id = Dave, !.issuer = Dave]}
    \cup {[e EXCEPT !.credentialSubject.origin = o] : o \in {OriginA, OriginB, BadOrigin}}
    \cup {[e EXCEPT !.id.base = "zz"]}
    \cup {[e EXCEPT !.proof.verificationMethod =
                      KeyUri(e.issuer, AuthKey(e.issuer).id)]}

RECURSIVE SeqsUpTo(_, _)
\* The sequences over S of length at most n.
SeqsUpTo(S, n) ==
    IF n = 0 THEN {<<>>}
    ELSE LET shorter == SeqsUpTo(S, n - 1)
         IN  shorter \cup {Append(q, x) : q \in shorter, x \in S}

VerifierDids == {Alice, Bob, Dave}
VerifierOrigins == {OriginA, OriginB, BadOrigin}

(***************************************************************************)
(* State.                                                                  *)
(***************************************************************************)
VARIABLES
    issuance,    \* the call of createCredential: arguments, position and outcome
    assembly,    \* the call of getDomainLinkagePresentation
    vArgs,       \* the arguments of the call of verifyDidConfigPresentation
    vpc,         \* per entry: "resolving", "verifying", "fulfilled", "rejected"
    verr,        \* per entry: the error its callback threw, or NoError
    outcome      \* the promise verifyDidConfigPresentation returned

vars == <<issuance, assembly, vArgs, vpc, verr, outcome>>

NoSigner == [secret |-> "", keyUri |-> NoKeyUri]
\* status: "idle", "resolving" (Did.resolve awaited), "signing" (the answer of
\* the signCallback awaited), "returned", "threw".  unsigned is the credential
\* createPresentation was called with, answer what the signCallback answers,
\* credential what the call returned (the locals are gone once it has).
NoIssuance ==
    [status |-> "idle", signCallback |-> NoSigner, origin |-> <<>>, didUri |-> "",
     error |-> NoError, unsigned |-> NoCredential, answer |-> NoAnswer,
     credential |-> NoCredential, signCalls |-> 0]
\* status: "idle", "verifying" (Did.verifyDidSignature awaited), "returned",
\* "threw".  input is the credential as it was handed over, claimerSignature
\* what its claimerSignature object holds now.
NoAssembly ==
    [status |-> "idle", input |-> NoCredential,
     claimerSignature |-> NoCredential.claimerSignature, error |-> NoError,
     presentation |-> NoPresentation, attempted |-> <<>>]
NoArgs == [didUri |-> "", linked_dids |-> <<>>, origin |-> <<>>]

Init ==
    /\ issuance = NoIssuance
    /\ assembly = NoAssembly
    /\ vArgs = NoArgs
    /\ vpc = <<>>
    /\ verr = <<>>
    /\ outcome = Idle

Settled(pc) == pc \in {"fulfilled", "rejected"}
\* Every callback of the verification has ended.
VerifierQuiet == \A i \in 1..Len(vpc) : Settled(vpc[i])

(***************************************************************************)
(* A call of createCredential.  A behaviour is one workflow: an issuance,  *)
(* the assembly of its credential, the verification of its presentation.   *)
(* The arguments are a function and two strings: nothing the caller does   *)
(* while the call is under way changes what it reads.                      *)
(***************************************************************************)
\* The call: Did.resolve is called and awaited (line 47).
CreateCredential ==
    /\ issuance.status = "idle"
    /\ \E signCallback \in SignCallbacks, origin \in Origins, didUri \in KiltDids :
          issuance' = [NoIssuance EXCEPT !.status = "resolving",
                                         !.signCallback = signCallback,
                                         !.origin = origin, !.didUri = didUri]
    /\ UNCHANGED <<assembly, vArgs, vpc, verr, outcome>>

\* Did.resolve answers: lines 49-82 run up to the await, inside
\* createPresentation, of the signCallback, which has been invoked on the root
\* hash.  nonce and r are the random draws of fromClaim and of the signature.
CreateCredentialResolved ==
    /\ issuance.status = "resolving"
    /\ \E nonce \in Nonces, r \in SigRands :
          LET res == createCredential(issuance.origin, issuance.didUri, nonce)
          IN  issuance' =
                IF res.error # NoError
                THEN [issuance EXCEPT !.status = "threw", !.error = res.error]
                ELSE [issuance EXCEPT
                        !.status = "signing",
                        !.unsigned = res.value,
                        !.signCalls = 1,
                        !.answer = InvokeSigner(issuance.signCallback,
                                                res.value.rootHash, r)]
    /\ UNCHANGED <<assembly, vArgs, vpc, verr, outcome>>

\* The signCallback answers: createPresentation returns the presentation.
CreateCredentialSigned ==
    /\ issuance.status = "signing"
    /\ issuance' = [issuance EXCEPT
                      !.status = "returned",
                      !.unsigned = NoCredential,
                      !.answer = NoAnswer,
                      !.credential = createPresentation(issuance.unsigned,
                                                        issuance.answer)]
    /\ UNCHANGED <<assembly, vArgs, vpc, verr, outcome>>

(***************************************************************************)
(* A call of getDomainLinkagePresentation.                                 *)
(***************************************************************************)
\* The call: lines 91-127 run up to the await of Did.verifyDidSignature.
GetDomainLinkagePresentation ==
    /\ issuance.status = "returned"
    /\ assembly.status = "idle"
    /\ \E credential \in CredentialInputs(issuance.credential) :
          LET res == AssemblyCheckSync(credential)
          IN  assembly' = [NoAssembly EXCEPT
                            !.status = IF res.error = NoError THEN "verifying"
                                       ELSE "threw",
                            !.input = credential,
                            !.claimerSignature = credential.claimerSignature,
                            !.error = res.error,
                            !.attempted = res.attempted]
    /\ UNCHANGED <<issuance, vArgs, vpc, verr, outcome>>

\* While the call awaits Did.verifyDidSignature the caller assigns to a member
\* of the credential's claimerSignature object: the signature, the key URI (of
\* the assertion key of another DID than the one the credential named), or,
\* in two steps, both.
OverwriteClaimerSignature ==
    /\ assembly.status = "verifying"
    /\ LET other == OtherDid(assembly.input.claimerSignature.keyUri.did)
           otherKey == KeyUri(other, AttKey(other).id)
       IN  \E claimerSignature \in
                 ClaimerSignatureOverwrites(assembly.claimerSignature, otherKey) :
               assembly' = [assembly EXCEPT !.claimerSignature = claimerSignature]
    /\ UNCHANGED <<issuance, vArgs, vpc, verr, outcome>>

\* Did.verifyDidSignature answers: the call throws, or builds the proof from
\* the claimerSignature object (lines 130-136) and returns the envelope.
GetDomainLinkagePresentationVerified ==
    /\ assembly.status = "verifying"
    /\ LET res == getDomainLinkagePresentation(assembly.input,
                                                assembly.claimerSignature)
       IN  assembly' = [assembly EXCEPT
                          !.status = IF res.error = NoError THEN "returned"
                                     ELSE "threw",
                          !.error = res.error,
                          !.presentation = res.value,
                          !.attempted = res.attempted]
    /\ UNCHANGED <<issuance, vArgs, vpc, verr, outcome>>

(***************************************************************************)
(* A call of verifyDidConfigPresentation: every entry's callback runs to   *)
(* its first await, and Promise.all is handed the promises.                *)
(***************************************************************************)
VerifyDidConfigPresentation ==
    /\ assembly.status = "returned"
    /\ outcome.state = "idle"
    /\ \E didUri \in VerifierDids, origin \in VerifierOrigins,
          linked \in SeqsUpTo(EntryInputs(assembly.presentation.linked_dids[1]),
                              MaxEntries) :
          LET errs == [i \in 1..Len(linked) |-> EntryCheckSync(didUri, linked[i], origin)]
          IN  /\ vArgs' = [didUri |-> didUri, linked_dids |-> linked, origin |-> origin]
              /\ verr' = errs
              /\ vpc' = [i \in 1..Len(linked) |->
                           IF errs[i] = NoError THEN "resolving" ELSE "rejected"]
              /\ outcome' = asyncSomeStart(errs)
    /\ UNCHANGED <<issuance, assembly>>

\* Did.resolve answers entry i's callback, which runs to its second await.
ResolveReturns ==
    \E i \in 1..Len(vpc) :
        /\ vpc[i] = "resolving"
        /\ LET err == EntryCheckResolved(vArgs.didUri, vArgs.linked_dids[i])
               pcs == [vpc EXCEPT ![i] = IF err = NoError THEN "verifying" ELSE "rejected"]
               errs == [verr EXCEPT ![i] = err]
           IN  /\ vpc' = pcs
               /\ verr' = errs
               /\ outcome' = asyncSomeSettle(outcome, pcs, errs, i)
        /\ UNCHANGED <<issuance, assembly, vArgs>>

\* Did.verifyDidSignature answers entry i's callback, which ends.
VerifyReturns ==
    \E i \in 1..Len(vpc) :
        /\ vpc[i] = "verifying"
        /\ LET err == EntryCheckSignature(vArgs.linked_dids[i])
               pcs == [vpc EXCEPT ![i] = IF err = NoError THEN "fulfilled" ELSE "rejected"]
               errs == [verr EXCEPT ![i] = err]
           IN  /\ vpc' = pcs
               /\ verr' = errs
               /\ outcome' = asyncSomeSettle(outcome, pcs, errs, i)
        /\ UNCHANGED <<issuance, assembly, vArgs>>

Next ==
    \/ CreateCredential
    \/ CreateCredentialResolved
    \/ CreateCredentialSigned
    \/ GetDomainLinkagePresentation
    \/ OverwriteClaimerSignature
    \/ GetDomainLinkagePresentationVerified
    \/ VerifyDidConfigPresentation
    \/ ResolveReturns
    \/ VerifyReturns

Spec == Init /\ [][Next]_vars

(***************************************************************************)
(* Definitions used to state the claims.                                   *)
(***************************************************************************)
\* The signing capability bound to the assertion-method key of did's document.
BoundSigner(did) == assertionSigner(AttKey(did).publicKey, Document(did))
\* The origins of the model that validUrl.isUri accepts.
AcceptedOrigins == {origin \in Origins : isUri(origin)}
HasAssertionKey(did) == resolve(did).found /\ resolve(did).document.assertionMethod # <<>>
\* createCredential has been called; it has ended.
Issued == issuance.status # "idle"
IssuanceEnded == issuance.status \in {"returned", "threw"}
\* getDomainLinkagePresentation has been called.
Assembled == assembly.status # "idle"
\* The caller left the credential alone while its assembly was under way.
NotOverwritten == assembly.claimerSignature = assembly.input.claimerSignature
VerifyCalled == outcome.state # "idle"
Entries == {vArgs.linked_dids[i] : i \in 1..Len(vArgs.linked_dids)}
\* The entry getDomainLinkagePresentation returned.
AssembledEntry == assembly.presentation.linked_dids[1]
\* What one entry's callback ends with when it runs alone.
EntryVerdict(didUri, credential, origin) ==
    LET sync == EntryCheckSync(didUri, credential, origin)
        resolved == EntryCheckResolved(didUri, credential)
    IN  IF sync # NoError THEN sync
        ELSE IF resolved # NoError THEN resolved
        ELSE EntryCheckSignature(credential)
Verdict(i) == EntryVerdict(vArgs.didUri, vArgs.linked_dids[i], vArgs.origin)

(***************************************************************************)
(* C1 -- round trip: for a valid origin, a DID whose document has an       *)
(* assertion-method key and the signing capability bound to that key,      *)
(* createCredential returns, getDomainLinkagePresentation of what it       *)
(* returned returns, and verifyDidConfigPresentation of that presentation  *)
(* against the same DID and origin never rejects and ends resolved.        *)
(***************************************************************************)
C1_Pre ==
    /\ Issued
    /\ issuance.origin \in AcceptedOrigins
    /\ HasAssertionKey(issuance.didUri)
    /\ issuance.signCallback = BoundSigner(issuance.didUri)
C1_VerifiedAsIssued ==
    /\ VerifyCalled
    /\ assembly.input = issuance.credential
    /\ NotOverwritten
    /\ vArgs = [didUri |-> issuance.didUri,
                linked_dids |-> assembly.presentation.linked_dids,
                origin |-> issuance.origin]
\* C1: under C1_Pre no step of issuance, assembly and verification rejects:
\* each call, once it has ended, has returned, and the verification ends
\* resolved.
C1_RoundTrip ==
    C1_Pre =>
        /\ issuance.status # "threw"
        /\ (Assembled /\ assembly.input = issuance.credential)
              => assembly.status # "threw"
        /\ C1_VerifiedAsIssued =>
              /\ outcome.state # "rejected"
              /\ \A i \in 1..Len(verr) : verr[i] = NoError
              /\ VerifierQuiet => outcome.state = "resolved"
\* C1: a round trip that ended resolved.
C1_Witness == C1_Pre /\ C1_VerifiedAsIssued /\ outcome.state = "resolved"

(***************************************************************************)
(* C2 -- whenever verification resolves, every entry has                   *)
(* credentialSubject.id = didUri, issuer = credentialSubject.id and        *)
(* credentialSubject.origin = origin; a presentation with an entry for     *)
(* another DID (even one validly signed by that DID) or with an issuer     *)
(* that differs from its subject is rejected.                              *)
(***************************************************************************)
C2_EntryMatches(e) ==
    /\ e.credentialSubject.id = vArgs.didUri
    /\ e.issuer = e.credentialSubject.id
    /\ e.credentialSubject.origin = vArgs.origin
\* C2: a resolved verification has only matching entries, and one entry that
\* does not match makes the verification reject.
C2_ResolvedImpliesMatch ==
    VerifyCalled =>
        /\ outcome.state = "resolved" => \A e \in Entries : C2_EntryMatches(e)
        /\ (\E e \in Entries : ~C2_EntryMatches(e)) => outcome.state = "rejected"
\* An entry issued by and validly signed for another DID than the one under test.
\* C2: rejected although the entry is self-issued and validly signed.
C2_Witness ==
    /\ outcome.state = "rejected"
    /\ \E e \in Entries :
          /\ e.credentialSubject.id # vArgs.didUri
          /\ e.issuer = e.credentialSubject.id
          /\ e.proof.verificationMethod.did = e.credentialSubject.id
          /\ EntryCheckSignature(e) = NoError

(***************************************************************************)
(* C3 -- a presentation whose proof signature was overwritten after        *)
(* assembly is verified against the DID and origin it was assembled for.   *)
(***************************************************************************)
C3_Tampered ==
    /\ VerifyCalled
    /\ Len(vArgs.linked_dids) = 1
    /\ vArgs.linked_dids[1] # AssembledEntry
    /\ vArgs.linked_dids[1] =
          [AssembledEntry EXCEPT !.proof.signature = vArgs.linked_dids[1].proof.signature]
    /\ vArgs.didUri = AssembledEntry.credentialSubject.id
    /\ vArgs.origin = AssembledEntry.credentialSubject.origin
C3_FailsWithSignatureError ==
    /\ outcome.state # "resolved"
    /\ VerifierQuiet => outcome = Rejected(SignatureVerificationError)
\* C3 as claimed: any value other than the original signature makes the
\* verification fail with SignatureVerificationError.
C3_AnyOtherValueFails == C3_Tampered => C3_FailsWithSignatureError
\* The overwritten value is itself a signature of the root hash under the key
\* the proof names.
C3_StillASignature ==
    \E i \in 1..Len(Document(AssembledEntry.proof.verificationMethod.did).assertionMethod) :
        LET key == Document(AssembledEntry.proof.verificationMethod.did).assertionMethod[i]
        IN  /\ key.id = AssembledEntry.proof.verificationMethod.fragment
            /\ CryptoVerify(fromCredentialIRI(AssembledEntry.id).value,
                            vArgs.linked_dids[1].proof.signature, key.publicKey)
\* C3 as amended: the overwritten value is '0x' or any other value that is not
\* a signature of the root hash under the proof's key.
C3_InvalidValueFails ==
    (C3_Tampered /\ ~C3_StillASignature) => C3_FailsWithSignatureError
\* C3: the proof signature overwritten with '0x', rejected with
\* SignatureVerificationError.
C3_Witness ==
    /\ C3_Tampered
    /\ vArgs.linked_dids[1].proof.signature = EmptySignature
    /\ outcome = Rejected(SignatureVerificationError)

(***************************************************************************)
(* C4 -- an origin that is not a URL makes createCredential fail.          *)
(***************************************************************************)
\* C4 as claimed: it fails with InvalidOriginError whatever the DID is, and the
\* signing capability is never invoked.
C4_AlwaysInvalidOriginError ==
    (Issued /\ issuance.origin \notin AcceptedOrigins) =>
        /\ issuance.signCalls = 0
        /\ IssuanceEnded =>
              /\ issuance.status = "threw"
              /\ issuance.error = InvalidOriginError
\* C4 as amended: it never returns and never signs; the error is
\* InvalidOriginError when the DID resolves, and DidResolutionError when it
\* does not (the DID is resolved before the origin is looked at).
C4_FailsBeforeSigning ==
    (Issued /\ issuance.origin \notin AcceptedOrigins) =>
        /\ issuance.status \in {"resolving", "threw"}
        /\ issuance.credential = NoCredential
        /\ issuance.signCalls = 0
        /\ issuance.status = "threw" =>
              issuance.error = IF resolve(issuance.didUri).found
                               THEN InvalidOriginError
                               ELSE DidResolutionError
\* C4: 'bad origin' with a DID that resolves.
C4_Witness ==
    /\ issuance.origin = BadOrigin
    /\ issuance.didUri = Alice
    /\ issuance.status = "threw"
    /\ issuance.error = InvalidOriginError

(***************************************************************************)
(* C5 -- the envelope getDomainLinkagePresentation returns has the DID     *)
(* Configuration context and exactly one entry, whose credentialSubject is *)
(* {id: claim.owner, origin: claim.contents.origin, rootHash: rootHash}.   *)
(***************************************************************************)
\* C5: the returned envelope, with rootHash in its credentialSubject.
C5_SubjectCarriesRootHash ==
    assembly.status = "returned" =>
        /\ assembly.presentation.context = DID_CONFIGURATION_CONTEXT
        /\ Len(assembly.presentation.linked_dids) = 1
        /\ AssembledEntry.credentialSubject.id = assembly.input.claim.owner
        /\ JsStr(AssembledEntry.credentialSubject.origin)
              = assembly.input.claim.contents.origin
        /\ DOMAIN AssembledEntry.credentialSubject = {"id", "origin", "rootHash"}
        /\ AssembledEntry.credentialSubject["rootHash"] = assembly.input.rootHash

(***************************************************************************)
(* C6 -- getDomainLinkagePresentation fails with MalformedClaimError,      *)
(* before any other validation, whenever the claim's owner is unset or its *)
(* contents have no origin (either one, or both).                          *)
(***************************************************************************)
\* C6: owner unset or origin absent gives MalformedClaimError, thrown by the
\* call itself before any other validation is attempted.
C6_EitherMissingIsMalformed ==
    (Assembled /\ (assembly.input.claim.owner = UnsetOwner
                   \/ ~Truthy(assembly.input.claim.contents.origin))) =>
        /\ assembly.status = "threw"
        /\ assembly.error = MalformedClaimError
        /\ assembly.attempted = <<>>

(***************************************************************************)
(* C7 -- what a successful createCredential returns.                       *)
(***************************************************************************)
C7_ClaimAndEmptyLegitimations ==
    /\ issuance.credential.claim =
          [cTypeHash |-> CTypeHash,
           contents |-> [origin |-> JsStr(issuance.origin)],
           owner |-> issuance.didUri]
    /\ issuance.credential.delegationId = "null"
    /\ issuance.credential.legitimations = <<>>
C7_AssertionKeyUri ==
    KeyUri(issuance.didUri, resolve(issuance.didUri).document.assertionMethod[1].id)
\* C7: whatever the signing capability, the key URI of the claimer signature
\* is the DID followed by the id of its assertion-method key, and the claim,
\* delegationId and legitimations are as listed.
C7_KeyUriIsAssertionKey ==
    issuance.status = "returned" =>
        /\ issuance.credential.claimerSignature.keyUri = C7_AssertionKeyUri
        /\ C7_ClaimAndEmptyLegitimations
\* What the code does instead: the key URI is the one the signing capability
\* answers with; createCredential neither sets nor checks it.
C7_KeyUriIsTheSigners ==
    issuance.status = "returned" =>
        /\ issuance.credential.claimerSignature.keyUri = issuance.signCallback.keyUri
        /\ issuance.signCallback = BoundSigner(issuance.didUri)
              => issuance.credential.claimerSignature.keyUri = C7_AssertionKeyUri
        /\ C7_ClaimAndEmptyLegitimations

(***************************************************************************)
(* C8 -- the entries' checks run concurrently: the call resolves exactly   *)
(* when every entry passes all its checks (also with no entry at all),     *)
(* rejects when one fails, and the error it rejects with is the error of   *)
(* one of the failing entries.                                             *)
(***************************************************************************)
\* C8: resolved iff every entry passes; rejected with the error of a failing
\* entry; settled once every callback has ended.
C8_AllOrNothing ==
    VerifyCalled =>
        LET verdicts == {Verdict(i) : i \in 1..Len(vArgs.linked_dids)}
        IN  /\ outcome.state = "resolved" => verdicts \subseteq {NoError}
            /\ outcome.state = "rejected" =>
                  outcome.error # NoError /\ outcome.error \in verdicts
            /\ VerifierQuiet =>
                  /\ outcome.state \in {"resolved", "rejected"}
                  /\ outcome.state = "resolved" <=> verdicts \subseteq {NoError}
\* Two entries fail with different errors; the second, which fails at its last
\* check, has overtaken the first, which still waits for Did.resolve, and the
\* error of the second is the one the call rejects with.
C8_Witness ==
    /\ Len(vArgs.linked_dids) = 2
    /\ Verdict(1) # NoError
    /\ Verdict(2) # NoError
    /\ Verdict(1) # Verdict(2)
    /\ vpc[1] = "resolving"
    /\ outcome = Rejected(Verdict(2))

(***************************************************************************)
(* C9 -- signer binding: verification resolves only if every entry's       *)
(* proof.verificationMethod names an assertion-method key of the document  *)
(* of the DID under test.                                                  *)
(***************************************************************************)
C9_NamesAssertionKeyOf(e, did) ==
    /\ e.proof.verificationMethod.did = did
    /\ \E i \in 1..Len(resolve(did).document.assertionMethod) :
          resolve(did).document.assertionMethod[i].id = e.proof.verificationMethod.fragment
\* C9: a resolved verification has only proofs made with an assertion-method
\* key of the DID under test.
C9_SignerBinding ==
    outcome.state = "resolved" =>
        \A e \in Entries : C9_NamesAssertionKeyOf(e, vArgs.didUri)

(***************************************************************************)
(* C10 -- origin binding: verification resolves only if the root hash      *)
(* decoded from every entry's id is the root hash of a credential whose    *)
(* claim has owner = credentialSubject.id and contents.origin =            *)
(* credentialSubject.origin.                                               *)
(***************************************************************************)
C10_HashCoversSubject(e) ==
    LET rootHash == fromCredentialIRI(e.id).value
    IN  \E owner \in KiltDids, origin \in Origins, nonce \in Nonces :
            /\ rootHash = fromClaim(fromCTypeAndClaimContents([origin |-> JsStr(origin)],
                                                               owner), nonce).rootHash
            /\ owner = e.credentialSubject.id
            /\ origin = e.credentialSubject.origin
\* C10: a resolved verification has only entries whose id is the root hash of
\* a claim with the entry's subject id and origin.
C10_OriginBinding ==
    outcome.state = "resolved" => \A e \in Entries : C10_HashCoversSubject(e)

====
